---- MODULE Spec2Model ----
(***************************************************************************)
(* Model of rnote-engine/src/compose/textured.rs: the textured stroke      *)
(* compositor compose_line and the dot distribution sampler                *)
(* TexturedDotsDistribution::sample_for_range_symmetrical_clipped.         *)
(*                                                                         *)
(* f64 quantities are fixed-point integers:                                *)
(*   lengths and coordinates   LenTicks ticks per unit                     *)
(*   radii                     RadTicks ticks per unit                     *)
(*   density                   DensTicks ticks per unit                    *)
(*   angles                    ticks of pi/16 (AngTicksPerPi = 16)         *)
(* The input sets are chosen so that every division of the code (by 2, 3   *)
(* and 4) and every scaling (0.8, 1.25) is exact on the values that occur. *)
(***************************************************************************)
EXTENDS Integers, Sequences, FiniteSets, TLC

VARIABLES
    pc,              \* compose_line: entry, loop, done, panicked;
                     \* a direct sampler call: sample, sampled, sample_panicked
    call,            \* 1 for the first invocation, 2 for the second, 0 for a
                     \* direct sampler call
    line,            \* argument line: curves::Line
    width,           \* argument width: f64
    options,         \* argument options: &TexturedOptions
    rng,             \* let mut rng
    rng_init,        \* the state rng was created in
    rect,            \* let rect
    range_x,         \* the ranges for randomization
    range_y,
    range_dots_rot,
    range_dots_rx,
    range_dots_ry,
    n_dots,          \* let n_dots
    group,           \* let mut group: the ellipses added so far
    y_sample,        \* outcome of the sampler call of the latest iteration
    draws,           \* the RNG draws of the latest iteration, in order
    prev             \* arguments and outcome of the first invocation

vars == <<pc, call, line, width, options, rng, rng_init, rect, range_x, range_y,
          range_dots_rot, range_dots_rx, range_dots_ry, n_dots, group,
          y_sample, draws, prev>>

-----------------------------------------------------------------------------
(* Bounds of the model *)

\* explicit seeds are 0 .. MaxSeed
MaxSeed == 1
\* whole-unit densities are 0 .. MaxDensity
MaxDensity == 1

-----------------------------------------------------------------------------
(* Fixed-point scales *)

LenTicks == 12
RadTicks == 200
DensTicks == 4
AngTicksPerPi == 16

Abs(x) == IF x < 0 THEN -x ELSE x

\* f64::round of the rational num / den (den > 0): half away from zero
Round(num, den) ==
    IF num >= 0 THEN (2 * num + den) \div (2 * den)
    ELSE -((2 * (-num) + den) \div (2 * den))

\* `as i32`: a saturating cast
I32Max == 2147483647
AsI32(x) == IF x > I32Max THEN I32Max ELSE IF x < -I32Max - 1 THEN -I32Max - 1 ELSE x

\* Option<T>
None == <<>>
Some(v) == <<v>>

\* Range<f64>
Range(lo, hi) == [start |-> lo, end |-> hi]
\* Range::contains
contains(range, x) == range.start <= x /\ x < range.end

-----------------------------------------------------------------------------
(* The random generator and the distributions of rand / rand_distr *)

\* the generator's state space
RngModulus == 64
\* one step of the generator; the new state is also the output word
RngStep(s) == (5 * s + 3) % RngModulus
\* Pcg64::seed_from_u64
seed_from_u64(seed) == (7 * seed + 1) % RngModulus
\* the states Pcg64::from_entropy can produce in the model
EntropyStates == {10, 41}

\* compose::new_rng_default_pcg64: seeded when a seed is given, else from entropy
new_rng_default_pcg64(seed, entropy) ==
    IF seed = None THEN entropy ELSE seed_from_u64(seed[1])

\* Uniform::from(range) panics unless range.start < range.end
UniformFromOk(range) == range.start < range.end

\* Each draw returns ok, its value v, the generator's new state rng and the log
\* of the draw, one entry <<rule, parameters..., value>>.
Drawn(v, out, entry) ==
    [ok |-> TRUE, v |-> v, rng |-> out, log |-> <<Append(entry, v)>>]

\* Uniform::sample: low + scale * u with u in [0, 1), so the value is in [low, high)
UniformSample(g, range) ==
    Drawn(range.start + (RngStep(g) * (range.end - range.start)) \div RngModulus,
          RngStep(g), <<"Uniform", range.start, range.end>>)

\* Standard.sample::<bool>
StandardSample(g) ==
    Drawn(2 * RngStep(g) >= RngModulus, RngStep(g), <<"Standard">>)

\* Normal::new(mean, std_dev) is an error when std_dev is not finite
NormalNewOk(mean, std_dev) == std_dev \in Int

\* Normal::sample: mean + std_dev * z, z a standard normal deviate; the model
\* draws z from the whole sigmas -4 .. 4
NormalSample(g, mean, std_dev) ==
    Drawn(mean + std_dev * ((RngStep(g) * 9) \div RngModulus - 4),
          RngStep(g), <<"Normal", mean, std_dev>>)

\* Exp::new(rate) is an error when rate is not positive
ExpNewOk(rate) == rate > 0

\* Exp::sample: e / rate, e a unit-rate exponential deviate; the model draws
\* e from 0 .. 4
ExpSample(g, rate) ==
    Drawn(((RngStep(g) * 5) \div RngModulus) \div rate, RngStep(g), <<"Exp", rate>>)

-----------------------------------------------------------------------------
(* TexturedDotsDistribution *)

TexturedDotsDistribution == {"Uniform", "Normal", "Exponential", "ReverseExponential"}

\* the lambda of both exponential kinds
lambda == 1

\* outcome of a panic inside the sampler
SamplePanic(g, log) == [ok |-> FALSE, v |-> 0, rng |-> g, log |-> log]

\* offset + sign * width * Exp.sample(rng), after the draw b of the sign
ScaledExp(offset, sign, w, b, d) ==
    [ok |-> TRUE, v |-> offset + sign * w * d.v, rng |-> d.rng, log |-> b.log \o d.log]

\* Self::Normal, from the mean and the standard deviation
NormalArm(g, mean, std_dev) ==
    IF NormalNewOk(mean, std_dev)
    THEN NormalSample(g, mean, std_dev)
    ELSE SamplePanic(g, <<>>)

\* Self::Exponential, from mid, width and the draw b of the sign
ExponentialArm(mid, w, b) ==
    IF ExpNewOk(lambda)
    THEN ScaledExp(mid, IF b.v THEN 1 ELSE -1, w, b, ExpSample(b.rng, lambda))
    ELSE SamplePanic(b.rng, b.log)

\* Self::ReverseExponential, from width and the draw b of positive
ReverseExponentialArm(range, w, b) ==
    IF ExpNewOk(lambda)
    THEN ScaledExp(IF b.v THEN range.start ELSE range.end, IF b.v THEN 1 ELSE -1,
                   w, b, ExpSample(b.rng, lambda))
    ELSE SamplePanic(b.rng, b.log)

\* let sample = match self { ... }
FirstSample(self, g, range) ==
    CASE self = "Uniform" ->
            IF UniformFromOk(range) THEN UniformSample(g, range)
            ELSE SamplePanic(g, <<>>)
      [] self = "Normal" ->
            NormalArm(g, (range.end + range.start) \div 2,
                      ((range.end - range.start) \div 2) \div 3)
      [] self = "Exponential" ->
            ExponentialArm((range.end + range.start) \div 2,
                           (range.end - range.start) \div 4, StandardSample(g))
      [] self = "ReverseExponential" ->
            ReverseExponentialArm(range, (range.end - range.start) \div 4,
                                  StandardSample(g))

\* NeedsFallback without the range check: the first sample is always returned
NeedsFallbackNever(range, sample) == FALSE

\* NeedsFallback redrawing on every call
NeedsFallbackAlways(range, sample) == TRUE

\* if !range.contains(&sample): whether the fallback is taken
NeedsFallback(range, sample) == ~contains(range, sample)

\* the outcome of the sampler: that of the draws, with the first sample and
\* whether the fallback was taken
Outcome(d, first, fallback) ==
    [ok |-> d.ok, v |-> d.v, rng |-> d.rng, log |-> d.log,
     first |-> first, fallback |-> fallback]

\* the fallback draw d after the first sample s
Redrawn(s, d) == [ok |-> TRUE, v |-> d.v, rng |-> d.rng, log |-> s.log \o d.log]

\* if !range.contains(&sample) { Uniform::from(range.clone()).sample(rng) }
\* else { sample }, on the first sample s
Clipped(range, s) ==
    IF ~s.ok THEN Outcome(s, 0, FALSE)
    ELSE IF NeedsFallback(range, s.v)
    THEN IF UniformFromOk(range)
         THEN Outcome(Redrawn(s, UniformSample(s.rng, range)), s.v, TRUE)
         ELSE Outcome(SamplePanic(s.rng, s.log), s.v, TRUE)
    ELSE Outcome(s, s.v, FALSE)

\* sample_for_range_symmetrical_clipped(&self, rng, range)
sample_for_range_symmetrical_clipped(self, g, range) ==
    Clipped(range, FirstSample(self, g, range))

-----------------------------------------------------------------------------
(* TexturedOptions *)

\* Color, components 0 (0.0) or 1 (1.0)
Color(r, g, b, a) == [r |-> r, g |-> g, b |-> b, a |-> a]
COLOR_DEFAULT == Color(0, 0, 0, 1)
WIDTH_DEFAULT == 1 * LenTicks
DENSITY_DEFAULT == 5 * DensTicks
RADII_DEFAULT == <<2 * RadTicks, (3 * RadTicks) \div 10>>

\* Color::to_css_color
to_css_color(color) ==
    "rgb(" \o ToString(color.r * 255) \o "," \o ToString(color.g * 255) \o ","
           \o ToString(color.b * 255) \o "," \o ToString(color.a) \o ".000)"

-----------------------------------------------------------------------------
(* The inputs of the model *)

Point(x, y) == <<x, y>>
Line(s, e) == [start |-> s, end |-> e]

\* a zero-length line, a horizontal line of length 10, a vertical line of length 2
Lines == { Line(Point(0, 0), Point(0, 0)),
           Line(Point(0, 0), Point(10 * LenTicks, 0)),
           Line(Point(LenTicks, LenTicks), Point(LenTicks, 3 * LenTicks)) }

\* the width argument: 0, 2 and 10
Widths == {0, 2 * LenTicks, 10 * LenTicks}

Seeds == {None} \cup {Some(s) : s \in 0 .. MaxSeed}
\* options.width
OptionWidths == {WIDTH_DEFAULT, 2 * LenTicks}
StrokeColors == {None, Some(COLOR_DEFAULT)}
\* the whole densities 0 .. MaxDensity and 0.25
Densities == {DensTicks * d : d \in 0 .. MaxDensity} \cup {1}
RadiiSet == {RADII_DEFAULT, <<0, (3 * RadTicks) \div 10>>}

TexturedOptions ==
    [seed : Seeds, width : OptionWidths, stroke_color : StrokeColors,
     density : Densities, radii : RadiiSet, distribution : TexturedDotsDistribution]

-----------------------------------------------------------------------------
(* Geometry: curves::Line, Rectangle, nalgebra *)

Vec(l) == <<l.end[1] - l.start[1], l.end[2] - l.start[2]>>

\* Vector2::magnitude, exact on the lines of the model
magnitude(v) ==
    CHOOSE r \in 0 .. (Abs(v[1]) + Abs(v[2])) : r * r = v[1] * v[1] + v[2] * v[2]

\* Rotation2::rotation_between(&Vector2::x(), &vec).angle(), in angle ticks, on
\* axis-parallel vectors; the identity rotation for the zero vector
rotation_between_x_angle(v) ==
    CASE v[1] > 0 /\ v[2] = 0 -> 0
      [] v[1] = 0 /\ v[2] > 0 -> AngTicksPerPi \div 2
      [] v[1] < 0 /\ v[2] = 0 -> AngTicksPerPi
      [] v[1] = 0 /\ v[2] < 0 -> -(AngTicksPerPi \div 2)
      [] v[1] = 0 /\ v[2] = 0 -> 0

\* <<cos, sin>> of a multiple of pi/2
CosSin(a) ==
    CASE a = 0 -> <<1, 0>>
      [] a = AngTicksPerPi \div 2 -> <<0, 1>>
      [] a = AngTicksPerPi -> <<-1, 0>>
      [] a = -(AngTicksPerPi \div 2) -> <<0, -1>>

\* Line::line_w_width_to_rect: the cuboid's half extents are half the length and
\* half the width; the isometry takes the local origin to the line's midpoint and
\* the local x axis to the line's direction
line_w_width_to_rect(l, w) ==
    LET v == Vec(l)
    IN  [half_extents |-> <<magnitude(v) \div 2, w \div 2>>,
         translation  |-> <<l.start[1] + v[1] \div 2, l.start[2] + v[2] \div 2>>,
         angle        |-> rotation_between_x_angle(v)]

\* rect.transform.transform * na::point![x, y]
TransformPoint(r, x, y) ==
    LET cs == CosSin(r.angle)
    IN  <<r.translation[1] + cs[1] * x - cs[2] * y,
          r.translation[2] + cs[2] * x + cs[1] * y>>

\* f64::to_degrees, in hundredths of a degree
to_degrees(a) == (a * 18000) \div AngTicksPerPi

\* std::f64::consts::FRAC_PI_8
FRAC_PI_8 == AngTicksPerPi \div 8

-----------------------------------------------------------------------------
(* compose_line *)

\* RngAtEntry passing no seed
RngAtEntryUnseeded(o, entropy) == new_rng_default_pcg64(None, entropy)

\* let mut rng = compose::new_rng_default_pcg64(options.seed)
RngAtEntry(o, entropy) == new_rng_default_pcg64(o.seed, entropy)

\* RectOf taking the width from the options
RectOfOptionsWidth(l, w, o) == line_w_width_to_rect(l, o.width)

\* let rect = line.line_w_width_to_rect(width)
RectOf(l, w, o) == line_w_width_to_rect(l, w)

\* let area = 4.0 * half_extents[0] * half_extents[1], in square ticks
Area(r) == 4 * r.half_extents[1] * r.half_extents[2]

\* the ranges for randomization
RangeX(r) == Range(-r.half_extents[1], r.half_extents[1])
RangeY(r) == Range(-r.half_extents[2], r.half_extents[2])
RangeDotsRot == Range(-FRAC_PI_8, FRAC_PI_8)
RangeDotsRxSwapped(o) == Range((o.radii[1] * 125) \div 100, (o.radii[1] * 8) \div 10)
RangeDotsRx(o) == Range((o.radii[1] * 8) \div 10, (o.radii[1] * 125) \div 100)
RangeDotsRy(o) == Range((o.radii[2] * 8) \div 10, (o.radii[2] * 125) \div 100)

\* NDots truncating instead of rounding
NDotsTruncated(area, density) ==
    AsI32((area * density) \div (10 * LenTicks * LenTicks * DensTicks))

\* let n_dots = (area * 0.1 * options.density).round() as i32
NDots(area, density) ==
    AsI32(Round(area * density, 10 * LenTicks * LenTicks * DensTicks))

\* Fill falling back to the default color
FillDefaultColor(stroke_color) ==
    to_css_color(IF stroke_color = None THEN COLOR_DEFAULT ELSE stroke_color[1])

\* let fill = options.stroke_color.map_or(String::from(""), |c| c.to_css_color())
Fill(stroke_color) ==
    IF stroke_color = None THEN "" ELSE to_css_color(stroke_color[1])

\* the draws of an iteration that ran to its end
DotRecord(x_pos, y_pos, rot, rad_x, rad_y) ==
    [ok |-> TRUE, x_pos |-> x_pos.v, y |-> y_pos, rot |-> rot.v,
     radii |-> <<rad_x.v, rad_y.v>>, rng |-> rad_y.rng,
     log |-> x_pos.log \o y_pos.log \o rot.log \o rad_x.log \o rad_y.log]

\* the draws of an iteration in which the sampler panicked
DotPanic(x_pos, y_pos) ==
    [ok |-> FALSE, x_pos |-> x_pos.v, y |-> y_pos, rot |-> 0,
     radii |-> <<0, 0>>, rng |-> y_pos.rng, log |-> x_pos.log \o y_pos.log]

\* distr_dots_ry.sample(&mut rng)
DrawRy(x_pos, y_pos, rot, rad_x, rry) ==
    DotRecord(x_pos, y_pos, rot, rad_x, UniformSample(rad_x.rng, rry))

\* distr_dots_rx.sample(&mut rng)
DrawRx(x_pos, y_pos, rot, rrx, rry) ==
    DrawRy(x_pos, y_pos, rot, UniformSample(rot.rng, rrx), rry)

\* distr_dots_rot.sample(&mut rng)
DrawRot(x_pos, y_pos, rrot, rrx, rry) ==
    IF y_pos.ok
    THEN DrawRx(x_pos, y_pos, UniformSample(y_pos.rng, rrot), rrx, rry)
    ELSE DotPanic(x_pos, y_pos)

\* let y_pos = options.distribution.sample_for_range_symmetrical_clipped(..)
DrawY(o, x_pos, ry, rrot, rrx, rry) ==
    DrawRot(x_pos, sample_for_range_symmetrical_clipped(o.distribution, x_pos.rng, ry),
            rrot, rrx, rry)

\* DotDraws sampling the local x by the configured distribution as well
DotDrawsXByKind(o, g, rx, ry, rrot, rrx, rry) ==
    DrawY(o, sample_for_range_symmetrical_clipped(o.distribution, g, rx),
          ry, rrot, rrx, rry)

\* the draws of one loop iteration, in program order, starting with
\* let x_pos = distr_x.sample(&mut rng); ok is FALSE when the sampler panics
DotDraws(o, g, rx, ry, rrot, rrx, rry) ==
    DrawY(o, UniformSample(g, rx), ry, rrot, rrx, rry)

\* element::Ellipse::new().set("transform", ...).set("cx", ...) ... .set("fill", fill)
Ellipse(l, r, o, d) ==
    LET pos            == TransformPoint(r, d.x_pos, d.y.v)
        rotation_angle == rotation_between_x_angle(Vec(l)) + d.rot
    IN  [transform |-> <<"rotate", to_degrees(rotation_angle), pos[1], pos[2]>>,
         cx |-> pos[1], cy |-> pos[2], rx |-> d.radii[1], ry |-> d.radii[2],
         fill |-> Fill(o.stroke_color)]

NoSample == [ok |-> TRUE, v |-> 0, rng |-> 0, log |-> <<>>, first |-> 0, fallback |-> FALSE]
NoRect == [half_extents |-> <<0, 0>>, translation |-> <<0, 0>>, angle |-> 0]
NoPrev == [line |-> Line(Point(0, 0), Point(0, 0)), width |-> 0, options |-> <<>>,
           pc |-> "none", rng_init |-> 0, rect |-> NoRect, n_dots |-> 0,
           group |-> <<>>]

\* the ranges of the direct sampler calls: empty, and non-empty of span 1 and 2
SamplerRanges ==
    {Range(0, 0)}
    \cup {Range(lo, lo + k * LenTicks) : lo \in {-LenTicks, 0, 30}, k \in 1 .. 2}

\* a call of compose_line
InitCompose ==
    /\ pc = "entry"
    /\ call = 1
    /\ line \in Lines
    /\ width \in Widths
    /\ options \in TexturedOptions
    /\ rng = 0
    /\ range_y = Range(0, 0)

\* a call of sample_for_range_symmetrical_clipped on any generator state and range
InitSampler ==
    /\ pc = "sample"
    /\ call = 0
    /\ line = Line(Point(0, 0), Point(0, 0))
    /\ width = 0
    /\ \E k \in TexturedDotsDistribution :
         options = [seed |-> None, width |-> WIDTH_DEFAULT,
                    stroke_color |-> Some(COLOR_DEFAULT), density |-> DENSITY_DEFAULT,
                    radii |-> RADII_DEFAULT, distribution |-> k]
    /\ rng \in 0 .. RngModulus - 1
    /\ range_y \in SamplerRanges

Init ==
    /\ InitCompose \/ InitSampler
    /\ rng_init = rng
    /\ rect = NoRect
    /\ range_x = Range(0, 0)
    /\ range_dots_rot = Range(0, 0)
    /\ range_dots_rx = Range(0, 0)
    /\ range_dots_ry = Range(0, 0)
    /\ n_dots = 0
    /\ group = <<>>
    /\ y_sample = NoSample
    /\ draws = <<>>
    /\ prev = NoPrev

\* compose_line up to the loop: the generator, the envelope, the ranges, the
\* four Uniform distributions (each panics on an empty range) and the dot count
ComposeEnter ==
    /\ pc = "entry"
    /\ \E entropy \in EntropyStates :
         /\ rng' = RngAtEntry(options, entropy)
         /\ rng_init' = RngAtEntry(options, entropy)
    /\ \E r \in {RectOf(line, width, options)} :
           /\ rect' = r
           /\ range_x' = RangeX(r)
           /\ range_y' = RangeY(r)
           /\ range_dots_rot' = RangeDotsRot
           /\ range_dots_rx' = RangeDotsRx(options)
           /\ range_dots_ry' = RangeDotsRy(options)
           /\ IF /\ UniformFromOk(RangeX(r))
                 /\ UniformFromOk(RangeDotsRot)
                 /\ UniformFromOk(RangeDotsRx(options))
                 /\ UniformFromOk(RangeDotsRy(options))
              THEN /\ n_dots' = NDots(Area(r), options.density)
                   /\ pc' = "loop"
              ELSE /\ n_dots' = 0
                   /\ pc' = "panicked"
    /\ group' = <<>>
    /\ UNCHANGED <<call, line, width, options, y_sample, draws, prev>>

\* one iteration of for _ in 0..n_dots
ComposeDot ==
    /\ pc = "loop"
    /\ Len(group) < n_dots
    /\ \E d \in {DotDraws(options, rng, range_x, range_y, range_dots_rot,
                           range_dots_rx, range_dots_ry)} :
           /\ rng' = d.rng
           /\ y_sample' = d.y
           /\ draws' = d.log
           /\ IF d.ok
              THEN /\ group' = Append(group, Ellipse(line, rect, options, d))
                   /\ pc' = "loop"
              ELSE /\ group' = group
                   /\ pc' = "panicked"
    /\ UNCHANGED <<call, line, width, options, rng_init, rect, range_x, range_y,
                   range_dots_rot, range_dots_rx, range_dots_ry, n_dots, prev>>

\* group.into()
ComposeReturn ==
    /\ pc = "loop"
    /\ Len(group) >= n_dots
    /\ pc' = "done"
    /\ UNCHANGED <<call, line, width, options, rng, rng_init, rect, range_x,
                   range_y, range_dots_rot, range_dots_rx, range_dots_ry, n_dots,
                   group, y_sample, draws, prev>>

\* the argument triples that differ from <<l, w, o>> in at most one of the
\* options seed, width, stroke_color and distribution
Variants(l, w, o) ==
    {<<l, w, [o EXCEPT !.seed = s]>> : s \in Seeds}
    \cup {<<l, w, [o EXCEPT !.width = ow]>> : ow \in OptionWidths}
    \cup {<<l, w, [o EXCEPT !.stroke_color = c]>> : c \in StrokeColors}
    \cup {<<l, w, [o EXCEPT !.distribution = k]>> : k \in TexturedDotsDistribution}

\* after the first invocation has returned the caller invokes compose_line a
\* second time, with the same arguments or with one option changed (a panic
\* ends the caller)
CallAgain ==
    /\ pc = "done"
    /\ call = 1
    /\ prev' = [line |-> line, width |-> width, options |-> options, pc |-> pc,
                rng_init |-> rng_init, rect |-> rect, n_dots |-> n_dots,
                group |-> group]
    /\ \E a \in Variants(line, width, options) :
         /\ line' = a[1]
         /\ width' = a[2]
         /\ options' = a[3]
    /\ call' = 2
    /\ pc' = "entry"
    /\ rng' = 0
    /\ rng_init' = 0
    /\ rect' = NoRect
    /\ range_x' = Range(0, 0)
    /\ range_y' = Range(0, 0)
    /\ range_dots_rot' = Range(0, 0)
    /\ range_dots_rx' = Range(0, 0)
    /\ range_dots_ry' = Range(0, 0)
    /\ n_dots' = 0
    /\ group' = <<>>
    /\ y_sample' = NoSample
    /\ draws' = <<>>

\* one call of sample_for_range_symmetrical_clipped
SampleCall ==
    /\ pc = "sample"
    /\ \E y \in {sample_for_range_symmetrical_clipped(options.distribution, rng,
                                                        range_y)} :
           /\ y_sample' = y
           /\ draws' = y.log
           /\ rng' = y.rng
           /\ pc' = IF y.ok THEN "sampled" ELSE "sample_panicked"
    /\ UNCHANGED <<call, line, width, options, rng_init, rect, range_x, range_y,
                   range_dots_rot, range_dots_rx, range_dots_ry, n_dots, group, prev>>

Next == ComposeEnter \/ ComposeDot \/ ComposeReturn \/ CallAgain \/ SampleCall

Spec == Init /\ [][Next]_vars

TypeOK ==
    /\ pc \in {"entry", "loop", "done", "panicked", "sample", "sampled",
               "sample_panicked"}
    /\ call \in {0, 1, 2}
    /\ Len(group) <= (IF n_dots > 0 THEN n_dots ELSE 0)

-----------------------------------------------------------------------------
(* Properties *)

\* the sampler has been called and y_sample holds its outcome
Sampled == y_sample # NoSample

\* the current call of compose_line has run at least one iteration to its end
DotAdded == pc \in {"loop", "done"} /\ Len(group) > 0

\* the second invocation has the arguments of the first
SameArguments ==
    call = 2 /\ line = prev.line /\ width = prev.width /\ options = prev.options

\* the second invocation differs from the first in options.width only
OnlyOptionsWidthDiffers ==
    /\ call = 2
    /\ line = prev.line
    /\ width = prev.width
    /\ options.width # prev.options.width
    /\ options = [prev.options EXCEPT !.width = options.width]

\* the arguments compose_line documents: positive width and radii, non-negative
\* density, a line with start # end
ValidArguments ==
    /\ call \in {1, 2}
    /\ width > 0
    /\ options.radii[1] > 0
    /\ options.radii[2] > 0
    /\ options.density >= 0
    /\ line.start # line.end

\* the number of RNG draws of the first sample of each kind
BaseDraws(kind) == IF kind \in {"Uniform", "Normal"} THEN 1 ELSE 2

\* the rule of the first draw of each kind
FirstRule(kind) ==
    CASE kind = "Uniform" -> "Uniform"
      [] kind = "Normal" -> "Normal"
      [] kind = "Exponential" -> "Standard"
      [] kind = "ReverseExponential" -> "Standard"

\* C1: for every distribution kind, every range with lo < hi and every RNG state
\* the sampler returns normally a value in [lo, hi); this covers the local y
\* coordinates of compose_line, sampled on [-half_extent_y, half_extent_y).
C1_SampleInRange ==
    (Sampled /\ range_y.start < range_y.end)
        => /\ y_sample.ok
           /\ range_y.start <= y_sample.v
           /\ y_sample.v < range_y.end
           /\ (call # 0 => /\ range_y.start = -rect.half_extents[2]
                           /\ range_y.end = rect.half_extents[2])

\* C1 witness: inside compose_line a Normal first sample fell outside the range
\* and the returned value is inside it
C1_Witness ==
    /\ pc = "loop"
    /\ Sampled
    /\ options.distribution = "Normal"
    /\ y_sample.fallback
    /\ ~contains(range_y, y_sample.first)
    /\ contains(range_y, y_sample.v)

\* the dot count of the formula, from the arguments alone
ExpectedDots(l, w, o) ==
    Round(4 * (w \div 2) * (magnitude(Vec(l)) \div 2) * o.density,
          10 * LenTicks * LenTicks * DensTicks)

C3_Determinism ==
    (SameArguments /\ options.seed # None /\ pc \in {"done", "panicked"})
        => /\ pc = prev.pc
           /\ group = prev.group

\* C3 witness: the second of two seeded invocations on the same arguments
\* returned, with at least two ellipses
C3_Witness ==
    /\ SameArguments
    /\ options.seed # None
    /\ pc = "done"
    /\ Len(group) >= 2

\* C4 as claimed: with density 0 (and positive radii) compose_line returns an
\* empty group whatever the line and the width, never panicking.
C4_EmptyForAnyLine ==
    (call \in {1, 2} /\ options.density = 0
       /\ options.radii[1] > 0 /\ options.radii[2] > 0)
        => /\ pc # "panicked"
           /\ (pc = "done" => Len(group) = 0)

\* C5: on valid arguments compose_line never panics, and the group it returns
\* holds n_dots ellipses with positive radii, rotated about their centers, none
\* when n_dots is zero.
C5_Total ==
    ValidArguments
        => /\ pc # "panicked"
           /\ (pc = "done"
                 => /\ Len(group) = (IF n_dots > 0 THEN n_dots ELSE 0)
                    /\ \A k \in 1 .. Len(group) :
                         /\ group[k].rx > 0
                         /\ group[k].ry > 0
                         /\ group[k].transform[3] = group[k].cx
                         /\ group[k].transform[4] = group[k].cy)

\* C5 witness: a call on valid arguments returned a non-empty group
C5_Witness ==
    /\ ValidArguments
    /\ pc = "done"
    /\ Len(group) > 0
    /\ options.distribution = "ReverseExponential"

\* C6: without a stroke color every ellipse has the empty string as its fill;
\* with one, every ellipse has that color's css string.
C6_Fill ==
    call \in {1, 2}
        => \A k \in 1 .. Len(group) :
             /\ (options.stroke_color = None => group[k].fill = "")
             /\ (options.stroke_color # None
                   => /\ group[k].fill = to_css_color(options.stroke_color[1])
                      /\ group[k].fill # "")

\* C6 witness: a returned group of several ellipses, composed without a stroke color
C6_Witness ==
    /\ pc = "done"
    /\ options.stroke_color = None
    /\ Len(group) >= 2
    /\ group[1].fill = ""

\* C7 as claimed: on an envelope of area 100 (length 10, width 10) compose_line
\* emits exactly density dots, for a whole density.
C7_DotsPer10x10 ==
    (pc = "done" /\ magnitude(Vec(line)) = 10 * LenTicks /\ width = 10 * LenTicks
       /\ options.density % DensTicks = 0)
        => Len(group) * DensTicks = options.density

\* C8: the fallback is taken exactly when the first sample is outside the range;
\* a first sample inside is returned with no further draw; after a first sample
\* outside, one Uniform draw over the same range is made and returned; and the
\* Uniform kind never takes the fallback.
C8_FallbackOnce ==
    (Sampled /\ y_sample.ok)
        => LET kind == options.distribution
               n    == Len(y_sample.log)
           IN  /\ y_sample.fallback <=> ~contains(range_y, y_sample.first)
               /\ y_sample.log[1][1] = FirstRule(kind)
               /\ ~y_sample.fallback
                    => /\ y_sample.v = y_sample.first
                       /\ n = BaseDraws(kind)
               /\ y_sample.fallback
                    => /\ n = BaseDraws(kind) + 1
                       /\ y_sample.log[n] = <<"Uniform", range_y.start, range_y.end,
                                              y_sample.v>>
               /\ kind = "Uniform" => ~y_sample.fallback

\* C8 witness: a ReverseExponential first sample outside the range was replaced
\* by a Uniform draw
C8_Witness ==
    /\ Sampled
    /\ y_sample.ok
    /\ options.distribution = "ReverseExponential"
    /\ y_sample.fallback
    /\ Len(y_sample.log) = 3
    /\ y_sample.v # y_sample.first

\* C9: in every iteration the draws are, in order: local x by the uniform rule
\* over [-half_extent_x, half_extent_x), local y by the configured kind, then the
\* rotation jitter, the x-radius and the y-radius by the uniform rule over
\* [-pi/8, pi/8), [0.8 radii.x, 1.25 radii.x) and [0.8 radii.y, 1.25 radii.y);
\* and the ellipse is made of these values.
C9_DrawOrder ==
    DotAdded
        => LET n == Len(draws)
               m == Len(y_sample.log)
               e == group[Len(group)]
           IN  /\ n = m + 4
               /\ draws[1][1] = "Uniform"
               /\ draws[1][2] = -rect.half_extents[1]
               /\ draws[1][3] = rect.half_extents[1]
               /\ \A k \in 1 .. m : draws[k + 1] = y_sample.log[k]
               /\ draws[2][1] = FirstRule(options.distribution)
               /\ \A k \in 2 .. m :
                    y_sample.log[k][1] = "Uniform" => y_sample.fallback /\ k = m
               /\ draws[n - 2] = <<"Uniform", -FRAC_PI_8, FRAC_PI_8, draws[n - 2][4]>>
               /\ draws[n - 1] = <<"Uniform", (8 * options.radii[1]) \div 10,
                                   (125 * options.radii[1]) \div 100, e.rx>>
               /\ draws[n] = <<"Uniform", (8 * options.radii[2]) \div 10,
                               (125 * options.radii[2]) \div 100, e.ry>>
               /\ <<e.cx, e.cy>> = TransformPoint(rect, draws[1][4], y_sample.v)
               /\ e.transform[2]
                    = to_degrees(rotation_between_x_angle(Vec(line)) + draws[n - 2][4])

\* C9 witness: an iteration under the Exponential kind that took the fallback,
\* seven draws in all
C9_Witness ==
    /\ DotAdded
    /\ options.distribution = "Exponential"
    /\ Len(draws) = 7

\* C10: two invocations that differ in options.width only build the same
\* envelope and dot count, and from the same generator state (the same seed) end
\* the same way with the same ellipses.
C10_OptionsWidthUnused ==
    (OnlyOptionsWidthDiffers /\ pc # "entry")
        => /\ rect = prev.rect
           /\ n_dots = prev.n_dots
           /\ (options.seed # None => rng_init = prev.rng_init)
           /\ (rng_init = prev.rng_init /\ pc \in {"done", "panicked"}
                 => pc = prev.pc /\ group = prev.group)

\* C10 witness: the second invocation, differing in options.width only, returned
\* a non-empty group
C10_Witness ==
    /\ OnlyOptionsWidthDiffers
    /\ options.seed # None
    /\ pc = "done"
    /\ Len(group) >= 2

====
